---- MODULE Spec2Model ----
(***************************************************************************)
(* NimBLERemoteDescriptor: the blocking readValue()/writeValue() calls,    *)
(* the transport callbacks onReadCB()/onWriteCB() that complete them and   *)
(* releaseSemaphores(), the teardown that must unblock them.               *)
(*                                                                         *)
(* Caller threads run readValue()/writeValue() step by step; the host      *)
(* stack runs the callbacks; the connection may drop and come back at any  *)
(* time.  FreeRTOS::Semaphore (the Completion Gate) and the client object  *)
(* are not part of NimBLERemoteDescriptor.cpp and are modelled from the    *)
(* specification.                                                          *)
(***************************************************************************)
EXTENDS Integers, Sequences, FiniteSets, TLC

(* ------------------------------ bounds -------------------------------- *)

\* data-carrying callbacks the transport delivers for one read request
MaxFrags == 2
\* transport requests one call may submit before the model stops it
MaxRequests == 3
\* connections the client goes through (connection ids 1..MaxConns)
MaxConns == 2
\* calls one caller thread makes one after the other
MaxCalls == 2

(* ------------------------- program constants -------------------------- *)

BLE_HS_EDONE == 14
BLE_HS_ENOMEM == 6
BLE_HS_ENOTCONN == 7
BLE_ATT_ERR_ATTR_NOT_LONG == 11
BLE_ATT_ERR_INSUFFICIENT_AUTHEN == 5
BLE_ATT_ERR_INSUFFICIENT_AUTHOR == 8
BLE_ATT_ERR_INSUFFICIENT_ENC == 15
\* protocol header overhead subtracted from the ATT MTU
AttHeader == 3
\* the status releaseSemaphores() gives
ReleaseStatus == 1
\* the initial retry budget of a call
InitRetryCount == 1

BLE_HS_ATT_ERR(x) == 256 + x

UInt16 == 65536

Success == {0, BLE_HS_EDONE}
NotLong == BLE_HS_ATT_ERR(BLE_ATT_ERR_ATTR_NOT_LONG)
Insufficient == {BLE_HS_ATT_ERR(BLE_ATT_ERR_INSUFFICIENT_AUTHEN),
                 BLE_HS_ATT_ERR(BLE_ATT_ERR_INSUFFICIENT_AUTHOR),
                 BLE_HS_ATT_ERR(BLE_ATT_ERR_INSUFFICIENT_ENC)}

\* statuses a terminal callback may carry
TerminalStatus == Success \cup {NotLong} \cup Insufficient \cup {BLE_HS_ENOTCONN}
\* results of submitting a request to the host stack
IssueRc == {0, BLE_HS_ENOMEM}

(* ------------------------------ inputs -------------------------------- *)

Procs == {1, 2}
Handles == {16}
MtuValues == {23, 24}
Lengths == {20, 21, 30}

(* ------------------------- the Completion Gate ------------------------ *)

FreeGate == [held |-> FALSE, value |-> 0]

\* take(): the caller proceeds only when the gate is free
CanTake(g) == ~g.held
take(g) == [g EXCEPT !.held = TRUE]

\* give(value): record the status and free the gate; a signal that finds
\* the gate free is an extra one and is ignored
give(g, v) == IF g.held THEN [held |-> FALSE, value |-> v] ELSE g

\* give(): free the gate, keeping the recorded status
giveNoValue(g) == [g EXCEPT !.held = FALSE]

\* wait(): the caller proceeds once the gate was signalled, with its status
CanWait(g) == ~g.held
waitValue(g) == g.value

(* ------------------------------- state -------------------------------- *)

VARIABLES
    connected,                 \* pClient->isConnected()
    connId,                    \* pClient->getConnId()
    attMtu,                    \* the negotiated ATT MTU of the connection
    m_handle,                  \* the attribute handle of the descriptor
    m_value,                   \* the accumulated value buffer
    m_semaphoreReadDescrEvt,   \* the read gate
    m_semaphoreDescWrite,      \* the write gate
    inflight,                  \* requests the host stack has accepted
    pc,                        \* where each caller thread is
    loc,                       \* the locals of each caller's call
    obs,                       \* what an observer recorded of each call
    callsLeft                  \* calls each caller thread may still start

vars == <<connected, connId, attMtu, m_handle, m_value,
          m_semaphoreReadDescrEvt, m_semaphoreDescWrite,
          inflight, pc, loc, obs, callsLeft>>

NoLoc == [rc |-> 0, retryCount |-> 0, length |-> 0, mtu |-> 0, response |-> FALSE]

\* op: the call; connAtStart: isConnected() at call start; acq: gates
\* acquired; log: the transport requests submitted; stat: the statuses
\* wait() returned and what secureConnection() answered; frags: the bytes
\* the data callbacks of the call's requests appended; relAt: the number of
\* requests submitted when releaseSemaphores() found the call blocked (0:
\* it did not); unit: what ble_att_mtu() reported (-1: not asked);
\* length0: the caller's payload length; retStr/retOk: the return value
NoObs == [op |-> "none", connAtStart |-> FALSE, acq |-> 0, log |-> <<>>,
          stat |-> <<>>, frags |-> <<>>, relAt |-> 0, unit |-> -1,
          length0 |-> 0, response0 |-> FALSE, retStr |-> <<>>, retOk |-> FALSE]

Request(kind, p) ==
    [kind |-> kind, conn |-> connId, owner |-> p, call |-> callsLeft[p],
     attempt |-> Len(obs[p].log) + 1, n |-> 0]

LogEntry(fn, len) == [fn |-> fn, handle |-> m_handle, len |-> len]

InitCommon ==
    /\ connected \in BOOLEAN
    /\ connId = 1
    /\ attMtu \in MtuValues
    /\ m_handle \in Handles
    /\ m_value = <<>>
    /\ m_semaphoreReadDescrEvt = FreeGate
    /\ m_semaphoreDescWrite = FreeGate
    /\ inflight = {}
    /\ pc = [p \in Procs |-> "idle"]
    /\ loc = [p \in Procs |-> NoLoc]
    /\ obs = [p \in Procs |-> NoObs]

\* one caller thread making one call on a fresh descriptor
Init ==
    /\ InitCommon
    /\ callsLeft = [p \in Procs |-> IF p = 1 THEN 1 ELSE 0]

\* one caller thread making MaxCalls calls, one after the other
InitSeq ==
    /\ InitCommon
    /\ callsLeft = [p \in Procs |-> IF p = 1 THEN MaxCalls ELSE 0]

\* two caller threads, each making one call on the same descriptor
InitConc ==
    /\ InitCommon
    /\ callsLeft = [p \in Procs |-> 1]

CanCall(p) == pc[p] \in {"idle", "done"} /\ callsLeft[p] > 0

(* ----------------------------- readValue ------------------------------ *)

\* readValue() without the isConnected() check of lines 125-128
readValue_noCheck(p) ==
    /\ CanCall(p)
    /\ callsLeft' = [callsLeft EXCEPT ![p] = @ - 1]
    /\ m_value' = <<>>
    /\ loc' = [loc EXCEPT ![p] = [NoLoc EXCEPT !.retryCount = InitRetryCount]]
    /\ obs' = [obs EXCEPT ![p] = [NoObs EXCEPT !.op = "read", !.connAtStart = connected]]
    /\ pc' = [pc EXCEPT ![p] = "r_take"]
    /\ UNCHANGED <<connected, connId, attMtu, m_handle, m_semaphoreReadDescrEvt,
                   m_semaphoreDescWrite, inflight>>

\* lines 117-128: reset the locals and the buffer, check the connection
readValue(p) ==
    /\ CanCall(p)
    /\ callsLeft' = [callsLeft EXCEPT ![p] = @ - 1]
    /\ m_value' = <<>>
    /\ loc' = [loc EXCEPT ![p] = [NoLoc EXCEPT !.retryCount = InitRetryCount]]
    /\ obs' = [obs EXCEPT ![p] = [NoObs EXCEPT !.op = "read", !.connAtStart = connected]]
    /\ pc' = [pc EXCEPT ![p] = IF connected THEN "r_take" ELSE "done"]
    /\ UNCHANGED <<connected, connId, attMtu, m_handle, m_semaphoreReadDescrEvt,
                   m_semaphoreDescWrite, inflight>>

\* line 131: m_semaphoreReadDescrEvt.take()
readTake(p) ==
    /\ pc[p] = "r_take"
    /\ CanTake(m_semaphoreReadDescrEvt)
    /\ m_semaphoreReadDescrEvt' = take(m_semaphoreReadDescrEvt)
    /\ obs' = [obs EXCEPT ![p].acq = @ + 1]
    /\ pc' = [pc EXCEPT ![p] = "r_issue"]
    /\ UNCHANGED <<connected, connId, attMtu, m_handle, m_value,
                   m_semaphoreDescWrite, inflight, loc, callsLeft>>

\* readIssue without lines 136-141: a failed submission goes on to wait()
readIssue_failWaits(p) ==
    /\ pc[p] = "r_issue"
    /\ Len(obs[p].log) < MaxRequests
    /\ \E rc \in IssueRc :
         /\ loc' = [loc EXCEPT ![p].rc = rc]
         /\ inflight' = IF rc # 0 THEN inflight ELSE inflight \cup {Request("read", p)}
         /\ obs' = [obs EXCEPT ![p].log = Append(@, LogEntry("read_long", 0))]
         /\ pc' = [pc EXCEPT ![p] = "r_wait"]
    /\ UNCHANGED <<connected, connId, attMtu, m_handle, m_value,
                   m_semaphoreReadDescrEvt, m_semaphoreDescWrite, callsLeft>>

\* lines 133-141: ble_gattc_read_long(); on failure give(0) and return ""
readIssue(p) ==
    /\ pc[p] = "r_issue"
    /\ Len(obs[p].log) < MaxRequests
    /\ \E rc \in IssueRc :
         /\ loc' = [loc EXCEPT ![p].rc = rc]
         /\ IF rc # 0
              THEN /\ m_semaphoreReadDescrEvt' = give(m_semaphoreReadDescrEvt, 0)
                   /\ inflight' = inflight
                   /\ obs' = [obs EXCEPT ![p].log = Append(@, LogEntry("read_long", 0)),
                                         ![p].retStr = <<>>]
                   /\ pc' = [pc EXCEPT ![p] = "done"]
              ELSE /\ m_semaphoreReadDescrEvt' = m_semaphoreReadDescrEvt
                   /\ inflight' = inflight \cup {Request("read", p)}
                   /\ obs' = [obs EXCEPT ![p].log = Append(@, LogEntry("read_long", 0))]
                   /\ pc' = [pc EXCEPT ![p] = "r_wait"]
    /\ UNCHANGED <<connected, connId, attMtu, m_handle, m_value,
                   m_semaphoreDescWrite, callsLeft>>

\* the switch without the "attribute not long" case of lines 151-154
readSwitch_notLongFails(status, retryCount, secured) ==
    IF status \in Success THEN [ret |-> FALSE, rc |-> 0]
    ELSE IF status \in Insufficient /\ retryCount # 0 /\ secured
         THEN [ret |-> FALSE, rc |-> status]
    ELSE [ret |-> TRUE, rc |-> status]

\* lines 145-163: the switch on the status wait() returned.  ret: the call
\* returns ""; otherwise rc is the value the loop condition sees.
readSwitch(status, retryCount, secured) ==
    IF status \in Success THEN [ret |-> FALSE, rc |-> 0]
    ELSE IF status = NotLong THEN [ret |-> FALSE, rc |-> 0]
    ELSE IF status \in Insufficient /\ retryCount # 0 /\ secured
         THEN [ret |-> FALSE, rc |-> status]
    ELSE [ret |-> TRUE, rc |-> status]

\* the loop condition as while(rc != 0), the budget never spent
readLoop_noDecrement(rc, retryCount) ==
    [again |-> rc # 0, retryCount |-> retryCount]

\* line 164: while(rc != 0 && retryCount--)
readLoop(rc, retryCount) ==
    [again |-> rc # 0 /\ retryCount # 0,
     retryCount |-> IF rc # 0 THEN retryCount - 1 ELSE retryCount]

\* secureConnection() is asked only on an insufficient-security status with
\* retry budget left
AsksSecurity(status, retryCount) == status \in Insufficient /\ retryCount # 0

SecAnswer(status, retryCount, secured) ==
    IF AsksSecurity(status, retryCount)
      THEN (IF secured THEN "ok" ELSE "failed")
      ELSE "unasked"

\* lines 143-168: wait(), the switch, the loop condition, the return
readWait(p) ==
    /\ pc[p] = "r_wait"
    /\ CanWait(m_semaphoreReadDescrEvt)
    /\ \E secured \in BOOLEAN :
         LET status == waitValue(m_semaphoreReadDescrEvt)
             sw == readSwitch(status, loc[p].retryCount, secured)
             lp == readLoop(sw.rc, loc[p].retryCount)
             st == [status |-> status,
                    sec |-> SecAnswer(status, loc[p].retryCount, secured),
                    buf |-> m_value]
         IN  IF sw.ret
               THEN /\ loc' = [loc EXCEPT ![p].rc = sw.rc]
                    /\ obs' = [obs EXCEPT ![p].stat = Append(@, st), ![p].retStr = <<>>]
                    /\ pc' = [pc EXCEPT ![p] = "done"]
               ELSE /\ loc' = [loc EXCEPT ![p].rc = sw.rc, ![p].retryCount = lp.retryCount]
                    /\ IF lp.again
                         THEN /\ obs' = [obs EXCEPT ![p].stat = Append(@, st)]
                              /\ pc' = [pc EXCEPT ![p] = "r_take"]
                         ELSE /\ obs' = [obs EXCEPT ![p].stat = Append(@, st),
                                                    ![p].retStr = m_value]
                              /\ pc' = [pc EXCEPT ![p] = "done"]
    /\ UNCHANGED <<connected, connId, attMtu, m_handle, m_value,
                   m_semaphoreReadDescrEvt, m_semaphoreDescWrite, inflight, callsLeft>>

(* ----------------------------- writeValue ----------------------------- *)

\* ble_att_mtu(): the MTU of the connection, 0 when there is none
ble_att_mtu == IF connected THEN attMtu ELSE 0

\* line 258: uint16_t mtu = ble_att_mtu(...) - 3
singleFrameCeiling(unit) == (unit + UInt16 - AttHeader) % UInt16

\* line 262: the unacknowledged single-frame shortcut
fastPath(length, mtu, response) == length <= mtu /\ ~response

\* line 270: the long write is chosen by the length alone
useLongWrite(length, mtu) == length > mtu

\* lines 248-256: reset the locals, check the connection
writeValue(p, length, response) ==
    /\ CanCall(p)
    /\ callsLeft' = [callsLeft EXCEPT ![p] = @ - 1]
    /\ loc' = [loc EXCEPT ![p] = [NoLoc EXCEPT !.retryCount = InitRetryCount,
                                               !.length = length,
                                               !.response = response]]
    /\ obs' = [obs EXCEPT ![p] = [NoObs EXCEPT !.op = "write",
                                               !.connAtStart = connected,
                                               !.length0 = length,
                                               !.response0 = response]]
    /\ pc' = [pc EXCEPT ![p] = IF connected THEN "w_mtu" ELSE "done"]
    /\ UNCHANGED <<connected, connId, attMtu, m_handle, m_value,
                   m_semaphoreReadDescrEvt, m_semaphoreDescWrite, inflight>>

\* lines 258-265: compute the ceiling; the no-response write returns at once
writeMtu(p) ==
    /\ pc[p] = "w_mtu"
    /\ LET unit == ble_att_mtu
           mtu == singleFrameCeiling(unit)
       IN  IF fastPath(loc[p].length, mtu, loc[p].response)
             THEN \E rc \in IssueRc :
                    /\ loc' = [loc EXCEPT ![p].mtu = mtu, ![p].rc = rc]
                    /\ obs' = [obs EXCEPT
                                 ![p].unit = unit,
                                 ![p].log = Append(@, LogEntry("write_no_rsp", loc[p].length)),
                                 ![p].retOk = (rc = 0)]
                    /\ pc' = [pc EXCEPT ![p] = "done"]
             ELSE /\ loc' = [loc EXCEPT ![p].mtu = mtu]
                  /\ obs' = [obs EXCEPT ![p].unit = unit]
                  /\ pc' = [pc EXCEPT ![p] = "w_take"]
    /\ UNCHANGED <<connected, connId, attMtu, m_handle, m_value,
                   m_semaphoreReadDescrEvt, m_semaphoreDescWrite, inflight, callsLeft>>

\* line 268: m_semaphoreDescWrite.take()
writeTake(p) ==
    /\ pc[p] = "w_take"
    /\ CanTake(m_semaphoreDescWrite)
    /\ m_semaphoreDescWrite' = take(m_semaphoreDescWrite)
    /\ obs' = [obs EXCEPT ![p].acq = @ + 1]
    /\ pc' = [pc EXCEPT ![p] = "w_issue"]
    /\ UNCHANGED <<connected, connId, attMtu, m_handle, m_value,
                   m_semaphoreReadDescrEvt, inflight, loc, callsLeft>>

\* writeIssue without line 284: a failed submission returns with the gate held
writeIssue_noGive(p) ==
    /\ pc[p] = "w_issue"
    /\ Len(obs[p].log) < MaxRequests
    /\ \E rc \in IssueRc :
         LET fn == IF useLongWrite(loc[p].length, loc[p].mtu)
                     THEN "write_long" ELSE "write_flat"
         IN  /\ loc' = [loc EXCEPT ![p].rc = rc]
             /\ inflight' = IF rc # 0 THEN inflight ELSE inflight \cup {Request("write", p)}
             /\ obs' = [obs EXCEPT ![p].log = Append(@, LogEntry(fn, loc[p].length))]
             /\ pc' = [pc EXCEPT ![p] = IF rc # 0 THEN "done" ELSE "w_wait"]
    /\ UNCHANGED <<connected, connId, attMtu, m_handle, m_value,
                   m_semaphoreReadDescrEvt, m_semaphoreDescWrite, callsLeft>>

\* lines 270-287: ble_gattc_write_long() or ble_gattc_write_flat(); on
\* failure give() and return false
writeIssue(p) ==
    /\ pc[p] = "w_issue"
    /\ Len(obs[p].log) < MaxRequests
    /\ \E rc \in IssueRc :
         LET fn == IF useLongWrite(loc[p].length, loc[p].mtu)
                     THEN "write_long" ELSE "write_flat"
         IN  /\ loc' = [loc EXCEPT ![p].rc = rc]
             /\ IF rc # 0
                  THEN /\ m_semaphoreDescWrite' = giveNoValue(m_semaphoreDescWrite)
                       /\ inflight' = inflight
                       /\ obs' = [obs EXCEPT ![p].log = Append(@, LogEntry(fn, loc[p].length)),
                                             ![p].retOk = FALSE]
                       /\ pc' = [pc EXCEPT ![p] = "done"]
                  ELSE /\ m_semaphoreDescWrite' = m_semaphoreDescWrite
                       /\ inflight' = inflight \cup {Request("write", p)}
                       /\ obs' = [obs EXCEPT ![p].log = Append(@, LogEntry(fn, loc[p].length))]
                       /\ pc' = [pc EXCEPT ![p] = "w_wait"]
    /\ UNCHANGED <<connected, connId, attMtu, m_handle, m_value,
                   m_semaphoreReadDescrEvt, callsLeft>>

\* the switch retrying whatever secureConnection() answers
writeSwitch_ignoresUpgrade(status, retryCount, length, mtu, secured) ==
    IF status \in Success
      THEN [ret |-> FALSE, rc |-> 0, retryCount |-> retryCount, length |-> length]
    ELSE IF status = NotLong
      THEN [ret |-> FALSE, rc |-> status, retryCount |-> retryCount + 1, length |-> mtu]
    ELSE IF status \in Insufficient /\ retryCount # 0
      THEN [ret |-> FALSE, rc |-> status, retryCount |-> retryCount, length |-> length]
    ELSE [ret |-> TRUE, rc |-> status, retryCount |-> retryCount, length |-> length]

\* lines 291-310: the switch on the status wait() returned.  ret: the call
\* returns false; otherwise rc, retryCount and length are what the loop
\* condition and the next attempt see.
writeSwitch(status, retryCount, length, mtu, secured) ==
    IF status \in Success
      THEN [ret |-> FALSE, rc |-> 0, retryCount |-> retryCount, length |-> length]
    ELSE IF status = NotLong
      THEN [ret |-> FALSE, rc |-> status, retryCount |-> retryCount + 1, length |-> mtu]
    ELSE IF status \in Insufficient /\ retryCount # 0 /\ secured
      THEN [ret |-> FALSE, rc |-> status, retryCount |-> retryCount, length |-> length]
    ELSE [ret |-> TRUE, rc |-> status, retryCount |-> retryCount, length |-> length]

\* line 311: while(rc != 0 && retryCount--)
writeLoop(rc, retryCount) ==
    [again |-> rc # 0 /\ retryCount # 0,
     retryCount |-> IF rc # 0 THEN retryCount - 1 ELSE retryCount]

\* lines 289-315: wait(), the switch, the loop condition, the return
writeWait(p) ==
    /\ pc[p] = "w_wait"
    /\ CanWait(m_semaphoreDescWrite)
    /\ \E secured \in BOOLEAN :
         LET status == waitValue(m_semaphoreDescWrite)
             sw == writeSwitch(status, loc[p].retryCount, loc[p].length, loc[p].mtu, secured)
             lp == writeLoop(sw.rc, sw.retryCount)
             st == [status |-> status,
                    sec |-> SecAnswer(status, loc[p].retryCount, secured),
                    buf |-> <<>>]
         IN  IF sw.ret
               THEN /\ loc' = [loc EXCEPT ![p].rc = sw.rc]
                    /\ obs' = [obs EXCEPT ![p].stat = Append(@, st), ![p].retOk = FALSE]
                    /\ pc' = [pc EXCEPT ![p] = "done"]
               ELSE /\ loc' = [loc EXCEPT ![p].rc = sw.rc,
                                          ![p].retryCount = lp.retryCount,
                                          ![p].length = sw.length]
                    /\ IF lp.again
                         THEN /\ obs' = [obs EXCEPT ![p].stat = Append(@, st)]
                              /\ pc' = [pc EXCEPT ![p] = "w_take"]
                         ELSE /\ obs' = [obs EXCEPT ![p].stat = Append(@, st),
                                                    ![p].retOk = (sw.rc = 0)]
                              /\ pc' = [pc EXCEPT ![p] = "done"]
    /\ UNCHANGED <<connected, connId, attMtu, m_handle, m_value,
                   m_semaphoreReadDescrEvt, m_semaphoreDescWrite, inflight, callsLeft>>

(* ------------------------- transport callbacks ------------------------ *)

NoAttr == [present |-> FALSE, data |-> <<>>]
Attr(d) == [present |-> TRUE, data |-> d]

\* the callback without the return of line 104: every callback gives the gate
onReadCB_dataGives(conn_handle, status, attr) ==
    IF connId # conn_handle
      THEN UNCHANGED <<m_value, m_semaphoreReadDescrEvt>>
      ELSE /\ m_value' = IF status = 0 /\ attr.present THEN m_value \o attr.data ELSE m_value
           /\ m_semaphoreReadDescrEvt' = give(m_semaphoreReadDescrEvt, status)

\* the callback without the connection check of lines 90-95
onReadCB_noConnCheck(conn_handle, status, attr) ==
    IF status = 0 /\ attr.present
      THEN /\ m_value' = m_value \o attr.data
           /\ UNCHANGED m_semaphoreReadDescrEvt
      ELSE /\ m_semaphoreReadDescrEvt' = give(m_semaphoreReadDescrEvt, status)
           /\ UNCHANGED m_value

\* lines 85-111: a callback of another connection is ignored; a successful
\* callback with data appends and returns; any other one gives the gate
onReadCB(conn_handle, status, attr) ==
    IF connId # conn_handle
      THEN UNCHANGED <<m_value, m_semaphoreReadDescrEvt>>
    ELSE IF status = 0 /\ attr.present
      THEN /\ m_value' = m_value \o attr.data
           /\ UNCHANGED m_semaphoreReadDescrEvt
    ELSE /\ m_semaphoreReadDescrEvt' = give(m_semaphoreReadDescrEvt, status)
         /\ UNCHANGED m_value

\* lines 217-233: a callback of another connection is ignored; any other
\* one gives the write gate
onWriteCB(conn_handle, status) ==
    IF connId # conn_handle
      THEN UNCHANGED m_semaphoreDescWrite
      ELSE m_semaphoreDescWrite' = give(m_semaphoreDescWrite, status)

\* the request r belongs to the call its owner is still running
OfRunningCall(r) ==
    /\ r.call = callsLeft[r.owner]
    /\ pc[r.owner] \notin {"idle", "done"}

\* the next fragment of the request r: its bytes tell which request of
\* which caller it answers and its place in the value
NextFrag(r) == <<[owner |-> r.owner, call |-> r.call, attempt |-> r.attempt, k |-> r.n + 1]>>

\* the host stack delivers one fragment of a long read
ReadData(r) ==
    /\ r \in inflight
    /\ r.kind = "read"
    /\ r.n < MaxFrags
    /\ onReadCB(r.conn, 0, Attr(NextFrag(r)))
    /\ inflight' = (inflight \ {r}) \cup {[r EXCEPT !.n = @ + 1]}
    /\ obs' = IF OfRunningCall(r)
                THEN [obs EXCEPT ![r.owner].frags = @ \o NextFrag(r)]
                ELSE obs
    /\ UNCHANGED <<connected, connId, attMtu, m_handle, m_semaphoreDescWrite,
                   pc, loc, callsLeft>>

\* the host stack ends a read request with its one terminal callback
ReadDone(r, status) ==
    /\ r \in inflight
    /\ r.kind = "read"
    /\ onReadCB(r.conn, status, NoAttr)
    /\ inflight' = inflight \ {r}
    /\ UNCHANGED <<connected, connId, attMtu, m_handle, m_semaphoreDescWrite,
                   pc, loc, obs, callsLeft>>

\* the host stack ends a write request with its one terminal callback
WriteDone(r, status) ==
    /\ r \in inflight
    /\ r.kind = "write"
    /\ onWriteCB(r.conn, status)
    /\ inflight' = inflight \ {r}
    /\ UNCHANGED <<connected, connId, attMtu, m_handle, m_value,
                   m_semaphoreReadDescrEvt, pc, loc, obs, callsLeft>>

(* -------------------------- releaseSemaphores ------------------------- *)

\* releaseSemaphores() without line 343
releaseSemaphores_writeOnly ==
    /\ m_semaphoreDescWrite' = give(m_semaphoreDescWrite, ReleaseStatus)
    /\ m_semaphoreReadDescrEvt' = m_semaphoreReadDescrEvt

\* lines 341-344
releaseSemaphores ==
    /\ m_semaphoreDescWrite' = give(m_semaphoreDescWrite, ReleaseStatus)
    /\ m_semaphoreReadDescrEvt' = give(m_semaphoreReadDescrEvt, ReleaseStatus)

\* the caller p is blocked in wait(): its request is submitted and its gate
\* has not been signalled
Blocked(p) ==
    \/ pc[p] = "r_wait" /\ m_semaphoreReadDescrEvt.held
    \/ pc[p] = "w_wait" /\ m_semaphoreDescWrite.held

\* the teardown calls releaseSemaphores(); the observer notes the calls it
\* found blocked
Release ==
    /\ releaseSemaphores
    /\ obs' = [p \in Procs |->
                 IF Blocked(p) /\ obs[p].relAt = 0
                   THEN [obs[p] EXCEPT !.relAt = Len(obs[p].log)]
                   ELSE obs[p]]
    /\ UNCHANGED <<connected, connId, attMtu, m_handle, m_value, inflight,
                   pc, loc, callsLeft>>

(* ---------------------------- the connection -------------------------- *)

\* the connection is lost
Disconnect ==
    /\ connected
    /\ connected' = FALSE
    /\ UNCHANGED <<connId, attMtu, m_handle, m_value, m_semaphoreReadDescrEvt,
                   m_semaphoreDescWrite, inflight, pc, loc, obs, callsLeft>>

\* the client connects again: a new connection id, a newly negotiated MTU
Reconnect ==
    /\ ~connected
    /\ connId < MaxConns
    /\ connected' = TRUE
    /\ connId' = connId + 1
    /\ attMtu' \in MtuValues
    /\ UNCHANGED <<m_handle, m_value, m_semaphoreReadDescrEvt,
                   m_semaphoreDescWrite, inflight, pc, loc, obs, callsLeft>>

(* --------------------------- specifications --------------------------- *)

\* the steps of a caller thread inside a call
CallerStep(p) ==
    \/ readTake(p)
    \/ readIssue(p)
    \/ readWait(p)
    \/ writeMtu(p)
    \/ writeTake(p)
    \/ writeIssue(p)
    \/ writeWait(p)

Next ==
    \/ \E p \in Procs : readValue(p)
    \/ \E p \in Procs, length \in Lengths, response \in BOOLEAN : writeValue(p, length, response)
    \/ \E p \in Procs : CallerStep(p)
    \/ \E r \in inflight : ReadData(r)
    \/ \E r \in inflight, status \in TerminalStatus : ReadDone(r, status)
    \/ \E r \in inflight, status \in TerminalStatus : WriteDone(r, status)
    \/ Release
    \/ Disconnect
    \/ Reconnect

Spec == Init /\ [][Next]_vars

\* a caller thread that can take a step is eventually scheduled
FairSpec == Spec /\ \A p \in Procs : WF_vars(CallerStep(p))

\* the steps of a caller thread inside a readValue() call
ReaderStep(p) ==
    \/ readTake(p)
    \/ readIssue(p)
    \/ readWait(p)

\* the descriptor used for reads only, on a connection that stays as it is
NextReads ==
    \/ \E p \in Procs : readValue(p)
    \/ \E p \in Procs : ReaderStep(p)
    \/ \E r \in inflight : ReadData(r)
    \/ \E r \in inflight, status \in TerminalStatus : ReadDone(r, status)
    \/ Release

\* readValue() calls that follow one another on the same descriptor
SeqSpec == InitSeq /\ [][NextReads]_vars

\* the descriptor used for reads only, on a connection that stays as it is,
\* with a peer that answers every request with success and no teardown
NextGoodReads ==
    \/ \E p \in Procs : readValue(p)
    \/ \E p \in Procs : ReaderStep(p)
    \/ \E r \in inflight : ReadData(r)
    \/ \E r \in inflight, status \in Success : ReadDone(r, status)

\* readValue() calls that run at the same time on the same descriptor
ConcSpec == InitConc /\ [][NextGoodReads]_vars

(* ------------------------------- claims ------------------------------- *)

Last(q) == q[Len(q)]
Called(p) == obs[p].op # "none"
Returned(p) == Called(p) /\ pc[p] = "done"
Failure(p) == obs[p].retStr = <<>> /\ obs[p].retOk = FALSE
Statuses(p) == [k \in 1..Len(obs[p].stat) |-> obs[p].stat[k].status]

\* C1: a call that finds the client disconnected has returned the failure
\* value, has submitted no transport request and has acquired no gate.
C1_DisconnectedCallDoesNothing ==
    \A p \in Procs :
        (Called(p) /\ ~obs[p].connAtStart) =>
            /\ pc[p] = "done"
            /\ Failure(p)
            /\ obs[p].log = <<>>
            /\ obs[p].acq = 0

C1_Witness ==
    \E p \in Procs : obs[p].op = "read" /\ ~obs[p].connAtStart /\ pc[p] = "done"

\* C2: a read whose one request ended with a terminal success returns the
\* fragments the transport delivered for it, in delivery order, and it woke
\* only once the request had ended (no fragment of it is still to come).
C2_ReadReturnsConcatenation ==
    \A p \in Procs :
        (/\ Returned(p)
         /\ obs[p].op = "read"
         /\ Len(obs[p].stat) = 1
         /\ obs[p].stat[1].status \in Success) =>
            /\ obs[p].retStr = obs[p].frags
            /\ ~(\E r \in inflight : r.owner = p /\ r.kind = "read")

C2_Witness ==
    \E p \in Procs :
        /\ Returned(p)
        /\ obs[p].op = "read"
        /\ Len(obs[p].stat) = 1
        /\ obs[p].stat[1].status \in Success
        /\ Len(obs[p].frags) = 2
        /\ obs[p].retStr = obs[p].frags

\* C3: a call that releaseSemaphores() found blocked in wait() eventually
\* returns the failure value, having submitted no request after the release,
\* whether or not the transport ever delivers the terminal callback.
C3_ReleaseUnblocks ==
    \A p \in Procs :
        (obs[p].relAt > 0) ~>
            (/\ pc[p] = "done"
             /\ Failure(p)
             /\ Len(obs[p].log) = obs[p].relAt)

C3_Witness ==
    \E p \in Procs :
        /\ obs[p].op = "read"
        /\ obs[p].relAt > 0
        /\ pc[p] = "done"
        /\ Failure(p)
        /\ \E r \in inflight : r.owner = p

\* C4: one readValue() call submits at most two read requests.
C4_AtMostTwoReads ==
    \A p \in Procs : obs[p].op = "read" => Len(obs[p].log) <= 2

C4_Witness ==
    \E p \in Procs : obs[p].op = "read" /\ Len(obs[p].log) = 2

\* C5: one writeValue() call submits at most two write requests.
C5_AtMostTwoWrites ==
    \A p \in Procs : obs[p].op = "write" => Len(obs[p].log) <= 2

\* C6: the first request of a connected writeValue() call is chosen by the
\* payload length, the unit size and requireResponse: a no-response write
\* that returns at once without a gate when the payload fits in unitSize-3
\* and no response is required, a long write when the payload exceeds
\* unitSize-3, a single acknowledged write otherwise.
C6_FirstRequestChoice ==
    \A p \in Procs :
        (obs[p].op = "write" /\ obs[p].unit # -1) =>
            LET ceiling == obs[p].unit - AttHeader
                len == obs[p].length0
                log == obs[p].log
            IN  IF len <= ceiling /\ ~obs[p].response0
                  THEN /\ pc[p] = "done"
                       /\ log = <<[fn |-> "write_no_rsp", handle |-> m_handle, len |-> len]>>
                       /\ obs[p].acq = 0
                       /\ obs[p].stat = <<>>
                       /\ obs[p].retOk = (loc[p].rc = 0)
                ELSE IF len > ceiling
                  THEN Len(log) >= 1 => log[1].fn = "write_long" /\ log[1].len = len
                ELSE Len(log) >= 1 => log[1].fn = "write_flat" /\ log[1].len = len

\* C7: when the first attempt ends with an insufficient-security status and
\* secureConnection() succeeds, the call makes exactly one retry: two
\* requests in all, the second for the same handle and with a payload no
\* longer than the first.
C7_ExactlyOneSecurityRetry ==
    \A p \in Procs :
        (/\ Len(obs[p].stat) >= 1
         /\ obs[p].stat[1].status \in Insufficient
         /\ obs[p].stat[1].sec = "ok") =>
            LET log == obs[p].log
            IN  /\ Len(log) <= 2
                /\ pc[p] = "done" => Len(log) = 2
                /\ Len(log) >= 2 =>
                     /\ log[2].handle = log[1].handle
                     /\ log[2].len <= log[1].len

\* C8: when the first attempt ends with an insufficient-security status and
\* secureConnection() fails, the call has returned the failure value after
\* that one attempt.
C8_NoUpgradeNoRetry ==
    \A p \in Procs :
        (/\ Len(obs[p].stat) >= 1
         /\ obs[p].stat[1].status \in Insufficient
         /\ obs[p].stat[1].sec = "failed") =>
            /\ pc[p] = "done"
            /\ Failure(p)
            /\ Len(obs[p].log) = 1

C8_Witness ==
    \E p \in Procs :
        /\ obs[p].op = "write"
        /\ Len(obs[p].stat) = 1
        /\ obs[p].stat[1].status \in Insufficient
        /\ obs[p].stat[1].sec = "failed"
        /\ pc[p] = "done"

\* C9: when a write longer than unitSize-3 ends with "attribute not long",
\* the next attempt is a single acknowledged write of exactly unitSize-3
\* bytes; with unit size 23, 30 bytes and the statuses not-long, success the
\* transport sees a 30-byte long write, then a 20-byte write, and the call
\* returns true.
C9_TruncatedRetry ==
    \A p \in Procs :
        obs[p].op = "write" =>
            LET ceiling == obs[p].unit - AttHeader
                log == obs[p].log
            IN  /\ \A k \in 1..Len(obs[p].stat) :
                     (/\ obs[p].stat[k].status = NotLong
                      /\ log[k].len > ceiling
                      /\ Len(log) > k) =>
                         /\ log[k + 1].fn = "write_flat"
                         /\ log[k + 1].len = ceiling
                /\ (/\ obs[p].unit = 23
                    /\ obs[p].length0 = 30
                    /\ Returned(p)
                    /\ Len(obs[p].stat) = 2
                    /\ obs[p].stat[1].status = NotLong
                    /\ obs[p].stat[2].status \in Success) =>
                         /\ obs[p].retOk
                         /\ log = <<[fn |-> "write_long", handle |-> m_handle, len |-> 30],
                                    [fn |-> "write_flat", handle |-> m_handle, len |-> 20]>>

\* C10: a read whose attempt ends with "attribute not long" returns the
\* bytes the data callbacks accumulated, submits no further request and
\* keeps the retry budget it had.
C10_NotLongReturnsAccumulated ==
    \A p \in Procs :
        (/\ Returned(p)
         /\ obs[p].op = "read"
         /\ Len(obs[p].stat) >= 1
         /\ Last(obs[p].stat).status = NotLong) =>
            /\ obs[p].retStr = Last(obs[p].stat).buf
            /\ obs[p].retStr = obs[p].frags
            /\ Len(obs[p].log) = Len(obs[p].stat)
            /\ loc[p].retryCount = InitRetryCount - (Len(obs[p].stat) - 1)

C10_Witness ==
    \E p \in Procs :
        /\ Returned(p)
        /\ obs[p].op = "read"
        /\ Len(obs[p].stat) = 1
        /\ obs[p].stat[1].status = NotLong
        /\ Len(obs[p].frags) = 1
        /\ obs[p].retStr = obs[p].frags

\* C11: in every reachable state the descriptor has at most one read
\* request and at most one write request outstanding (submitted and not yet
\* ended by its terminal callback).
C11_OneOutstandingRequest ==
    /\ Cardinality({r \in inflight : r.kind = "read"}) <= 1
    /\ Cardinality({r \in inflight : r.kind = "write"}) <= 1

\* C12: with two readValue() calls running at the same time, the buffer
\* holds only what the callbacks of the read in flight accumulated: a caller
\* that has not acquired the gate neither clears nor alters it, and the read
\* returns exactly what its own callbacks accumulated.
C12_BufferOwnedByGateHolder ==
    \A p \in Procs :
        /\ (pc[p] = "r_wait" /\ \E r \in inflight : r.owner = p) =>
               m_value = obs[p].frags
        /\ (/\ Returned(p)
            /\ obs[p].op = "read"
            /\ Len(obs[p].stat) = 1
            /\ obs[p].stat[1].status \in Success) =>
               obs[p].retStr = obs[p].frags

\* C13: a read that is retried after an insufficient-security status and
\* then ends with success returns only bytes delivered during the retried
\* attempt: nothing the first attempt accumulated is kept.
C13_RetryStartsWithEmptyBuffer ==
    \A p \in Procs :
        (/\ Returned(p)
         /\ obs[p].op = "read"
         /\ Len(obs[p].stat) = 2
         /\ obs[p].stat[1].status \in Insufficient
         /\ obs[p].stat[2].status \in Success) =>
            \A i \in 1..Len(obs[p].retStr) : obs[p].retStr[i].attempt = 2

\* C14: a read or write callback whose connection handle is not the
\* client's current connection id leaves the buffer, the recorded statuses
\* and both gates as they are, whatever status or data it carries.
C14_StaleCallbackIgnored ==
    [][\A r \in inflight :
         (/\ r.conn # connId
          /\ \/ ReadData(r)
             \/ \E status \in TerminalStatus : ReadDone(r, status)
             \/ \E status \in TerminalStatus : WriteDone(r, status)) =>
            UNCHANGED <<m_value, m_semaphoreReadDescrEvt, m_semaphoreDescWrite>>]_vars

C14_Witness ==
    \E p \in Procs :
        /\ pc[p] = "r_wait"
        /\ m_semaphoreReadDescrEvt.held
        /\ Len(obs[p].frags) > 0
        /\ m_value = <<>>
        /\ \E r \in inflight : r.owner = p /\ r.conn # connId /\ r.n > 0

\* the last request the call submitted was refused by the host stack
IssueFailed(p) ==
    /\ Len(obs[p].log) = Len(obs[p].stat) + 1
    /\ Last(obs[p].log).fn # "write_no_rsp"
    /\ loc[p].rc # 0

\* the gate the call works with is free
OwnGateFree(p) ==
    IF obs[p].op = "read" THEN ~m_semaphoreReadDescrEvt.held
                          ELSE ~m_semaphoreDescWrite.held

\* C15: when submitting the request fails in any attempt, the call has
\* released its gate and returned the failure value: it does not wait for
\* that attempt and does not retry, whatever retry budget is left.
C15_IssueFailureReturnsAtOnce ==
    \A p \in Procs :
        IssueFailed(p) =>
            /\ pc[p] = "done"
            /\ Failure(p)
            /\ OwnGateFree(p)

C15_Witness ==
    \E p \in Procs :
        /\ IssueFailed(p)
        /\ obs[p].op = "write"
        /\ loc[p].retryCount >= 1
        /\ Len(obs[p].log) = 2
        /\ pc[p] = "done"

\* C16: every writeValue() call ends after a bounded number of attempts
\* whatever statuses the peer returns: no call that has already submitted
\* MaxRequests requests is back in its loop for another attempt.
C16_WriteAttemptsBounded ==
    \A p \in Procs :
        (obs[p].op = "write" /\ pc[p] \in {"w_take", "w_issue"}) =>
            Len(obs[p].log) < MaxRequests

\* C18: in every attempt of a writeValue() call the payload length handed to
\* the transport is at most the length the caller supplied.
C18_PayloadNeverGrows ==
    \A p \in Procs :
        obs[p].op = "write" =>
            \A k \in 1..Len(obs[p].log) : obs[p].log[k].len <= obs[p].length0

\* C20: the single-frame ceiling writeValue() works with is the unit size
\* the transport reported minus 3, without wraparound, hence below the unit
\* size, and no payload longer than the unit size is submitted as a
\* single-frame or no-response write.
C20_CeilingBelowUnit ==
    \A p \in Procs :
        (obs[p].op = "write" /\ obs[p].unit # -1) =>
            /\ loc[p].mtu = obs[p].unit - AttHeader
            /\ loc[p].mtu < obs[p].unit
            /\ \A k \in 1..Len(obs[p].log) :
                 obs[p].log[k].fn \in {"write_flat", "write_no_rsp"} =>
                     obs[p].log[k].len <= obs[p].unit

\* C19: whenever a readValue() or writeValue() call has returned, on any
\* path, the gate it acquired is free again: with one call made on the
\* instance, no gate is held once that call has returned.
C19_ReturnLeavesGateFree ==
    \A p \in Procs :
        Returned(p) =>
            /\ OwnGateFree(p)
            /\ ~m_semaphoreReadDescrEvt.held
            /\ ~m_semaphoreDescWrite.held

C19_Witness ==
    \E p \in Procs :
        /\ Returned(p)
        /\ obs[p].op = "write"
        /\ obs[p].acq >= 1
        /\ IssueFailed(p)
        /\ Len(obs[p].stat) = 1

\* the request r was submitted by an earlier call of its owner, who is now
\* inside a later readValue() call
OfEarlierCall(r) ==
    /\ r.kind = "read"
    /\ r.call > callsLeft[r.owner]
    /\ obs[r.owner].op = "read"
    /\ pc[r.owner] \in {"r_take", "r_issue", "r_wait"}

\* C17: a late data or terminal callback of a request of an earlier read,
\* carrying the still-current connection id, does not affect a later
\* readValue() call on the instance: it appends nothing to the buffer and
\* signals nothing to the read gate.
C17_LateCallbackIgnored ==
    [][\A r \in inflight :
         (/\ OfEarlierCall(r)
          /\ r.conn = connId
          /\ \/ ReadData(r)
             \/ \E status \in TerminalStatus : ReadDone(r, status)) =>
            UNCHANGED <<m_value, m_semaphoreReadDescrEvt>>]_vars

====
